---------------------------- MODULE Spec2Model ----------------------------
(***************************************************************************)
(* TS_XL_Modifier (src/app.py): the record extraction and normalization    *)
(* pipeline.  Strings are TLC strings (Len, Head, Tail, SubSeq and \o act  *)
(* on them character by character); a cell of a grid is a string or the    *)
(* missing marker NaN.                                                     *)
(***************************************************************************)
EXTENDS Integers, Sequences, FiniteSets, TLC

VARIABLES
    pc,                \* position of the script: which block of app.py runs next
    customer_code,     \* line 252
    poa_code,          \* line 255
    upload,            \* the uploaded file: "none", "unreadable" or "workbook"
    sheets,            \* line 284/286: the decoded sheets, in workbook order
    sheet_idx,         \* position of the per-sheet loop of line 290
    sheet_state,       \* terminal state each processed sheet ended in
    all_clean_frames,  \* line 288
    file_df,           \* line 268 / 313
    ocr_in,            \* the scan: recognized text and the two fallbacks
    ocr_df,            \* line 267 / 342
    paste_in,          \* the pasted block as decoded by read_csv
    paste_df,          \* line 269 / 385
    final_df,          \* line 266 / 410
    dedup_count,       \* line 415
    messages,          \* what st.success / st.warning / st.error showed
    fn_pc,             \* position of a direct call of one helper function
    args,              \* the arguments of that call
    ret                \* its return value

runVars == <<pc, customer_code, poa_code, upload, sheets, sheet_idx, sheet_state,
             all_clean_frames, file_df, ocr_in, ocr_df, paste_in, paste_df,
             final_df, dedup_count, messages>>
fnVars == <<fn_pc, args, ret>>
vars == <<pc, customer_code, poa_code, upload, sheets, sheet_idx, sheet_state,
          all_clean_frames, file_df, ocr_in, ocr_df, paste_in, paste_df,
          final_df, dedup_count, messages, fn_pc, args, ret>>

---------------------------------------------------------------------------
(* Python string primitives *)

UpperAlpha == "ABCDEFGHIJKLMNOPQRSTUVWXYZ"
LowerAlpha == "abcdefghijklmnopqrstuvwxyz"
DigitChars == "0123456789"

Ch(s, i) == SubSeq(s, i, i)
CharsOf(s) == {Ch(s, i) : i \in 1..Len(s)}

UpperSet == CharsOf(UpperAlpha)
LowerSet == CharsOf(LowerAlpha)
DigitSet == CharsOf(DigitChars)
\* whitespace as str.strip(), str.split() and the regex class \s see it
WhiteSet == {" ", "\t"}
\* the regex class \w, which decides where \b holds
WordSet == UpperSet \cup LowerSet \cup DigitSet \cup {"_"}

\* the missing marker (NaN / None): a value no decoded text equals
NaN == "<NaN>"
isna(v) == v = NaN
\* str(v): a missing cell prints as "nan"
str(v) == IF isna(v) THEN "nan" ELSE v

UpChar(c) ==
    IF c \in LowerSet
    THEN Ch(UpperAlpha, CHOOSE i \in 1..Len(LowerAlpha) : Ch(LowerAlpha, i) = c)
    ELSE c

RECURSIVE upper(_)
upper(s) == IF s = "" THEN "" ELSE UpChar(Head(s)) \o upper(Tail(s))

RECURSIVE lstrip(_)
lstrip(s) == IF s # "" /\ Head(s) \in WhiteSet THEN lstrip(Tail(s)) ELSE s

RECURSIVE rstrip(_)
rstrip(s) ==
    IF s # "" /\ Ch(s, Len(s)) \in WhiteSet THEN rstrip(SubSeq(s, 1, Len(s) - 1)) ELSE s

strip(s) == rstrip(lstrip(s))

\* re.sub(r'[^...]', '', s): keep the characters of the class
RECURSIVE KeepChars(_, _)
KeepChars(s, class) ==
    IF s = "" THEN ""
    ELSE (IF Head(s) \in class THEN Head(s) ELSE "") \o KeepChars(Tail(s), class)

startswith(s, p) == Len(p) <= Len(s) /\ SubSeq(s, 1, Len(p)) = p

\* sub in s
Contains(s, sub) ==
    \E i \in 0..(Len(s) - Len(sub)) : SubSeq(s, i + 1, i + Len(sub)) = sub

isdigit(s) == s # "" /\ \A i \in 1..Len(s) : Ch(s, i) \in DigitSet

\* s[-n:]
LastChars(s, n) == IF Len(s) <= n THEN s ELSE SubSeq(s, Len(s) - n + 1, Len(s))

\* str(n) of a natural number, as an f-string prints it
RECURSIVE IntStr(_)
IntStr(n) ==
    IF n < 10 THEN Ch(DigitChars, n + 1)
    ELSE IntStr(n \div 10) \o Ch(DigitChars, (n % 10) + 1)

\* s.split(): the maximal runs of non-whitespace, in order
RECURSIVE SplitFrom(_, _)
SplitFrom(s, cur) ==
    IF s = "" THEN (IF cur = "" THEN <<>> ELSE <<cur>>)
    ELSE IF Head(s) \in WhiteSet
         THEN (IF cur = "" THEN <<>> ELSE <<cur>>) \o SplitFrom(Tail(s), "")
         ELSE SplitFrom(Tail(s), cur \o Head(s))

split(s) == SplitFrom(s, "")

\* " ".join(parts)
RECURSIVE join(_)
join(parts) ==
    IF parts = <<>> THEN ""
    ELSE IF Len(parts) = 1 THEN parts[1]
    ELSE parts[1] \o " " \o join(Tail(parts))

\* pd.concat(frames, ignore_index=True) on frames of rows: their concatenation
RECURSIVE Flatten(_)
Flatten(ss) == IF ss = <<>> THEN <<>> ELSE ss[1] \o Flatten(Tail(ss))

---------------------------------------------------------------------------
(* Lookup tables *)

\* BRAND_TO_CODE, in insertion order: <<alias, code>>
BRAND_TO_CODE == <<
    <<"OPEL", "OPEL">>, <<"VAUX", "OPEL">>, <<"VAUXHALL", "OPEL">>,
    <<"CITROEN", "CITR">>, <<"CITR", "CITR">>, <<"PEUGEOT", "PEUG">>,
    <<"PEUG", "PEUG">>, <<"INEOS", "INO">>, <<"ASTON MARTIN", "AML">>,
    <<"BENTLEY", "BML">>, <<"JAGUAR LANDROVER", "JLR">>, <<"JLR", "JLR">>,
    <<"FIAT", "FIAT">>, <<"JEEP", "JEEP">>, <<"FORD", "FORD">>,
    <<"TOYOTA", "TOYOTA">> >>

VALID_BRAND_KEYS == {BRAND_TO_CODE[i][1] : i \in 1..Len(BRAND_TO_CODE)}

---------------------------------------------------------------------------
(* Helper functions *)

\* get_vin_status without the .upper() of line 96
get_vin_status_no_upper(vin_raw) ==
    IF isna(vin_raw) THEN [ok |-> FALSE, reason |-> "Empty/NaN"]
    ELSE LET v == KeepChars(strip(str(vin_raw)), UpperSet \cup DigitSet)
         IN  IF Len(v) # 17
             THEN [ok |-> FALSE, reason |-> "Invalid Length (" \o IntStr(Len(v)) \o ")"]
             ELSE IF ~isdigit(LastChars(v, 6))
             THEN [ok |-> FALSE,
                   reason |-> "Suffix Not Numeric (" \o LastChars(v, 6) \o ")"]
             ELSE [ok |-> TRUE, reason |-> "OK"]

\* get_vin_status: [ok, reason]
get_vin_status(vin_raw) ==
    IF isna(vin_raw) THEN [ok |-> FALSE, reason |-> "Empty/NaN"]
    ELSE LET v == KeepChars(upper(strip(str(vin_raw))), UpperSet \cup DigitSet)
         IN  IF Len(v) # 17
             THEN [ok |-> FALSE, reason |-> "Invalid Length (" \o IntStr(Len(v)) \o ")"]
             ELSE IF ~isdigit(LastChars(v, 6))
             THEN [ok |-> FALSE,
                   reason |-> "Suffix Not Numeric (" \o LastChars(v, 6) \o ")"]
             ELSE [ok |-> TRUE, reason |-> "OK"]

map_brand(raw_brand) ==
    IF isna(raw_brand) THEN ""
    ELSE LET b == upper(strip(str(raw_brand)))
             exact == {i \in 1..Len(BRAND_TO_CODE) : BRAND_TO_CODE[i][1] = b}
             within == {i \in 1..Len(BRAND_TO_CODE) : Contains(b, BRAND_TO_CODE[i][1])}
             first(S) == CHOOSE i \in S : \A j \in S : i <= j
         IN  IF exact # {} THEN BRAND_TO_CODE[first(exact)][2]
             ELSE IF within # {} THEN BRAND_TO_CODE[first(within)][2]
             ELSE b

\* prefix_map of clean_model_name
prefix_map == [PEUG |-> "P", CITR |-> "C", OPEL |-> "O", FIAT |-> "F"]

clean_model_name(row) ==
    LET brand_code == map_brand(row.BRAND)
        raw_brand_name == upper(strip(str(row.BRAND)))
        model_raw == upper(strip(str(row.MODEL)))
        stripped == strip(Tail(model_raw))
    IN  IF model_raw = "" THEN ""
        ELSE IF raw_brand_name # "" /\ startswith(model_raw, raw_brand_name)
        THEN strip(SubSeq(model_raw, Len(raw_brand_name) + 1, Len(model_raw)))
        ELSE IF /\ brand_code \in DOMAIN prefix_map
                /\ startswith(model_raw, prefix_map[brand_code])
                /\ stripped # ""
        THEN stripped
        ELSE model_raw


\* the value find_header_row returns when no row qualifies (Python's None)
None == -1

Min(S) == CHOOSE i \in S : \A j \in S : i <= j

\* the context keywords of find_header_row
HeaderContext ==
    {"MAKE", "BRAND", "MODEL", "MAKER", "OEM", "COMMODITY", "CUST", "DESTINATION"}

\* the loop body of find_header_row without the pivot guard of line 133
HeaderRowQualifies_no_guard(df, i) ==
    LET row_values == [j \in 1..Len(df[i + 1]) |-> upper(strip(str(df[i + 1][j])))]
        cells == 1..Len(row_values)
        has_vin == \E j \in cells : row_values[j] = "VIN" \/ Contains(row_values[j], "VIN")
        has_context == \E j \in cells : \E k \in HeaderContext : Contains(row_values[j], k)
    IN  has_vin /\ has_context

\* one iteration of the loop of find_header_row on row i (0-based): does it return i
HeaderRowQualifies(df, i) ==
    LET row_values == [j \in 1..Len(df[i + 1]) |-> upper(strip(str(df[i + 1][j])))]
        cells == 1..Len(row_values)
        has_vin == \E j \in cells : row_values[j] = "VIN" \/ Contains(row_values[j], "VIN")
        count_of == \E j \in cells : Contains(row_values[j], "COUNT OF")
        has_context == \E j \in cells : \E k \in HeaderContext : Contains(row_values[j], k)
    IN  IF count_of THEN FALSE
        ELSE has_vin /\ has_context

RECURSIVE FindHeaderFrom(_, _, _)
FindHeaderFrom(df, i, stop) ==
    IF i >= stop THEN None
    ELSE IF HeaderRowQualifies(df, i) THEN i
    ELSE FindHeaderFrom(df, i + 1, stop)

\* find_header_row(df, scan_limit): a grid is a sequence of rows, a row a sequence of cells
find_header_row(df, scan_limit) ==
    FindHeaderFrom(df, 0, IF scan_limit < Len(df) THEN scan_limit ELSE Len(df))

\* the default scan_limit
DefaultScanLimit == 50

\* lines 295-297: the rows below the header, labelled f"{str(h).strip()}_{i}"
SliceBelowHeader(df, header_idx) ==
    LET new_header == df[header_idx + 1]
    IN  [columns |-> [i \in 1..Len(new_header) |->
                         strip(str(new_header[i])) \o "_" \o IntStr(i - 1)],
         rows |-> SubSeq(df, header_idx + 2, Len(df))]

\* the brand keywords of standardize_columns
BrandLabels == {"MAKE", "BRAND", "OEM", "MAKER"}

\* standardize_columns without the "c not in col_map" tests of lines 149 and 154
standardize_columns_reclaim(df) ==
    LET cols == df.columns
        n == Len(cols)
        c_up(i) == strip(upper(str(cols[i])))
        vinHits == {i \in 1..n : Contains(c_up(i), "VIN")}
        brandHits == {i \in 1..n : \E k \in BrandLabels : Contains(c_up(i), k)}
        modelHits == {i \in 1..n : Contains(c_up(i), "MODEL")}
        cell(r, hits) == IF hits = {} THEN "" ELSE df.rows[r][Min(hits)]
    IN  [columns |-> <<"VIN", "BRAND", "MODEL">>,
         rows |-> [r \in 1..Len(df.rows) |->
                      <<cell(r, vinHits), cell(r, brandHits), cell(r, modelHits)>>]]

\* standardize_columns: a frame is [columns, rows]; col_map is keyed by label
standardize_columns(df) ==
    LET cols == df.columns
        n == Len(cols)
        c_up(i) == strip(upper(str(cols[i])))
        vinHits == {i \in 1..n : Contains(c_up(i), "VIN")}
        vinKeys == IF vinHits = {} THEN {} ELSE {cols[Min(vinHits)]}
        brandHits == {i \in 1..n : /\ cols[i] \notin vinKeys
                                   /\ \E k \in BrandLabels : Contains(c_up(i), k)}
        brandKeys == IF brandHits = {} THEN {} ELSE {cols[Min(brandHits)]}
        modelHits == {i \in 1..n : /\ cols[i] \notin vinKeys \cup brandKeys
                                   /\ Contains(c_up(i), "MODEL")}
        modelKeys == IF modelHits = {} THEN {} ELSE {cols[Min(modelHits)]}
        \* df.rename(columns=col_map)
        renamed == [i \in 1..n |-> IF cols[i] \in vinKeys THEN "VIN"
                                   ELSE IF cols[i] \in brandKeys THEN "BRAND"
                                   ELSE IF cols[i] \in modelKeys THEN "MODEL"
                                   ELSE cols[i]]
        present(req) == {i \in 1..n : renamed[i] = req}
        \* df[req] = "" when absent; duplicated labels keep their first column
        cell(r, req) == IF present(req) = {} THEN "" ELSE df.rows[r][Min(present(req))]
    IN  [columns |-> <<"VIN", "BRAND", "MODEL">>,
         rows |-> [r \in 1..Len(df.rows) |->
                      <<cell(r, "VIN"), cell(r, "BRAND"), cell(r, "MODEL")>>]]

\* Only({F(x) : x \in {e}}) is F(e) with e evaluated once
Only(S) == CHOOSE x \in S : TRUE

\* the rows of a VIN/BRAND/MODEL frame as records
Records(frame) ==
    Only({ LET at(name) == Min({i \in 1..Len(df.columns) : df.columns[i] = name})
           IN  [r \in 1..Len(df.rows) |->
                   [VIN |-> df.rows[r][at("VIN")],
                    BRAND |-> df.rows[r][at("BRAND")],
                    MODEL |-> df.rows[r][at("MODEL")]]] : df \in {frame} })

\* vin_pattern.search(line): the start (1-based) of the left-most match of
\* \b([A-Z0-9]{17})\b, or 0
VinLen == 17

VinMatchStart(line) ==
    LET starts == {i \in 1..(Len(line) - VinLen + 1) :
                      /\ \A k \in i..(i + VinLen - 1) : Ch(line, k) \in UpperSet \cup DigitSet
                      /\ i = 1 \/ Ch(line, i - 1) \notin WordSet
                      /\ i + VinLen > Len(line) \/ Ch(line, i + VinLen) \notin WordSet}
    IN  IF starts = {} THEN 0 ELSE Min(starts)

\* raw_vin.replace('O', '0').replace('Q', '0').replace('I', '1')
RECURSIVE FixConfusions(_)
FixConfusions(s) ==
    IF s = "" THEN ""
    ELSE (CASE Head(s) = "O" -> "0"
            [] Head(s) = "Q" -> "0"
            [] Head(s) = "I" -> "1"
            [] OTHER -> Head(s)) \o FixConfusions(Tail(s))

\* lines 210-243 with the scan for a brand alias lacking the break of line 228
ExtractLine_no_break(line, default_brand, default_model) ==
    LET start == VinMatchStart(line)
        raw_vin == SubSeq(line, start, start + VinLen - 1)
        pre_vin_text == strip(SubSeq(line, 1, start - 1))
        clean_text == KeepChars(upper(pre_vin_text), UpperSet \cup DigitSet \cup WhiteSet)
        parts == split(clean_text)
        hits == {i \in 1..Len(parts) : parts[i] \in VALID_BRAND_KEYS}
        found == hits # {}
        last == CHOOSE i \in hits : \A j \in hits : j <= i
        extracted_brand == IF found THEN parts[last] ELSE default_brand
        model1 == IF found THEN join(SubSeq(parts, last + 1, Len(parts)))
                  ELSE default_model
        extracted_model == IF strip(model1) = "" THEN default_model ELSE model1
    IN  IF start = 0 THEN <<>>
        ELSE <<[VIN |-> FixConfusions(raw_vin),
                BRAND |-> extracted_brand,
                MODEL |-> extracted_model]>>

\* lines 210-243: the records one line of recognized text appends to data
ExtractLine(line, default_brand, default_model) ==
    LET start == VinMatchStart(line)
        raw_vin == SubSeq(line, start, start + VinLen - 1)
        pre_vin_text == strip(SubSeq(line, 1, start - 1))
        clean_text == KeepChars(upper(pre_vin_text), UpperSet \cup DigitSet \cup WhiteSet)
        parts == split(clean_text)
        hits == {i \in 1..Len(parts) : parts[i] \in VALID_BRAND_KEYS}
        found == hits # {}
        extracted_brand == IF found THEN parts[Min(hits)] ELSE default_brand
        model1 == IF found THEN join(SubSeq(parts, Min(hits) + 1, Len(parts)))
                  ELSE default_model
        extracted_model == IF strip(model1) = "" THEN default_model ELSE model1
    IN  IF start = 0 THEN <<>>
        ELSE <<[VIN |-> FixConfusions(raw_vin),
                BRAND |-> extracted_brand,
                MODEL |-> extracted_model]>>

\* lines 204-245 of extract_vins_from_image, on the recognized text split in lines
RECURSIVE ExtractText(_, _, _)
ExtractText(lines, default_brand, default_model) ==
    IF lines = <<>> THEN <<>>
    ELSE ExtractLine(lines[1], default_brand, default_model)
         \o ExtractText(Tail(lines), default_brand, default_model)

---------------------------------------------------------------------------
(* Direct calls of one helper: the arguments are drawn in Init, the action  *)
(* is the call.  The script's own variables stay idle meanwhile.            *)

RunIdle ==
    /\ pc = "idle" /\ customer_code = "" /\ poa_code = "" /\ upload = "none"
    /\ sheets = <<>> /\ sheet_idx = 0 /\ sheet_state = <<>> /\ all_clean_frames = <<>>
    /\ file_df = <<>> /\ ocr_in = <<>> /\ ocr_df = <<>> /\ paste_in = <<>>
    /\ paste_df = <<>> /\ final_df = <<>> /\ dedup_count = 0 /\ messages = <<>>

\* every string made of 1..n pieces of pool, in any order
RECURSIVE Pieces(_, _)
Pieces(pool, n) ==
    IF n = 0 THEN {""}
    ELSE {""} \cup {p \o q : p \in pool, q \in Pieces(pool, n - 1)}

\* every sequence of at most n elements of pool
RECURSIVE SeqsUpTo(_, _)
SeqsUpTo(pool, n) ==
    IF n = 0 THEN {<<>>}
    ELSE {<<>>} \cup {<<p>> \o q : p \in pool, q \in SeqsUpTo(pool, n - 1)}

(* ---- get_vin_status ---- *)

MaxVinPieces == 4

VinPieces == {"VF1AB", "123456", "789012", "7890AB", "vf1ab", " ", "-6.", "w0l"}

VinInputs == {NaN} \cup Pieces(VinPieces, MaxVinPieces)

InitVin == RunIdle /\ fn_pc = "call" /\ args \in VinInputs /\ ret = <<>>

CallVin ==
    /\ fn_pc = "call"
    /\ ret' = get_vin_status(args)
    /\ fn_pc' = "return"
    /\ UNCHANGED <<args, runVars>>

SpecVin == InitVin /\ [][CallVin]_vars

\* the characters of s that are A-Z or 0-9 once s is uppercased, in order
AlnumUpper(s) ==
    LET u == upper(s)
        keep == {i \in 1..Len(u) : Ch(u, i) \in UpperSet \/ Ch(u, i) \in DigitSet}
        RECURSIVE Build(_)
        Build(i) == IF i > Len(u) THEN ""
                    ELSE (IF i \in keep THEN Ch(u, i) ELSE "") \o Build(i + 1)
    IN  Build(1)

\* C7: get_vin_status(v) is valid iff v is present and, uppercased and stripped of
\* every character that is not A-Z or 0-9, has length exactly 17 with its last 6
\* characters all decimal digits; a missing value is invalid, a wrong length is
\* reported with the observed length and a non-numeric suffix with that suffix.
C7_VinValidIff ==
    fn_pc = "return" =>
        LET v == AlnumUpper(str(args))
            suffix == SubSeq(v, 12, 17)
            digits == \A i \in 12..17 : Ch(v, i) \in DigitSet
        IN  /\ ret.ok <=> (args # NaN /\ Len(v) = 17 /\ digits)
            /\ args = NaN => ~ret.ok
            /\ (args # NaN /\ Len(v) # 17) =>
                   Contains(ret.reason, "(" \o IntStr(Len(v)) \o ")")
            /\ (args # NaN /\ Len(v) = 17 /\ ~digits) =>
                   Contains(ret.reason, "(" \o suffix \o ")")

\* a lower-case VIN padded with noise was classified valid
C7_Witness ==
    /\ fn_pc = "return" /\ ret.ok
    /\ args # AlnumUpper(args)

(* ---- clean_model_name ---- *)

MaxModelPieces == 3

ModelPieces == {"P", "PEUGEOT", " ", "208", "O", "opel", "nan", "F"}

ModelInputs == {NaN} \cup Pieces(ModelPieces, MaxModelPieces)

BrandInputs ==
    {NaN, "", "  ", "PEUGEOT", " Peugeot ", "OPEL", "Vauxhall", "FIAT", "KIA", "P",
     "OPEL (STELLANTIS)", "nan"}

InitModel ==
    /\ RunIdle /\ fn_pc = "call" /\ ret = <<>>
    /\ args \in [BRAND : BrandInputs, MODEL : ModelInputs]

CallModel ==
    /\ fn_pc = "call"
    /\ ret' = clean_model_name(args)
    /\ fn_pc' = "return"
    /\ UNCHANGED <<args, runVars>>

SpecModel == InitModel /\ [][CallModel]_vars

\* the text of a cell as the claims read it: a missing cell holds no text
TextOf(cell) == IF cell = NaN THEN "" ELSE upper(strip(cell))

\* the legacy single-letter prefix of a brand code, "" when it has none
LegacyPrefix(code) ==
    CASE code = "PEUG" -> "P"
      [] code = "CITR" -> "C"
      [] code = "OPEL" -> "O"
      [] code = "FIAT" -> "F"
      [] OTHER -> ""

\* what C8 says clean_model_name returns, M the uppercased/trimmed model and B the
\* uppercased/trimmed raw brand
C8_Expected(brand, model) ==
    LET M == upper(strip(str(model)))
        B == TextOf(brand)
        L == LegacyPrefix(map_brand(brand))
        rest == strip(SubSeq(M, 2, Len(M)))
    IN  IF B # "" /\ startswith(M, B) THEN strip(SubSeq(M, Len(B) + 1, Len(M)))
        ELSE IF L # "" /\ startswith(M, L) /\ rest # "" THEN rest
        ELSE M

\* C8: clean_model_name applies rule 1 (the raw brand is a non-empty prefix of the
\* model), else rule 2 (legacy single-letter prefix), else returns the
\* uppercased/trimmed model M; when the brand is empty (empty string or missing
\* cell) the result equals M.
C8_ModelCleaner ==
    fn_pc = "return" =>
        /\ ret = C8_Expected(args.BRAND, args.MODEL)
        /\ TextOf(args.BRAND) = "" => ret = upper(strip(str(args.MODEL)))

\* C8 on the rows whose brand cell is present: rules 1 and 2 as stated
C8_PresentBrand ==
    (fn_pc = "return" /\ args.BRAND # NaN) =>
        ret = C8_Expected(args.BRAND, args.MODEL)

(* ---- find_header_row ---- *)

MaxGridRows == 3

LocatorRows ==
    { <<"Count of VIN", "5">>,
      <<"VIN", "MAKE", "MODEL">>,
      <<" count of vin ", "Make", "Model">>,
      <<"vin no", " customer ">>,
      <<"VIN", "Colour">>,
      <<"Brand", "Model">>,
      <<"VF1AB123456789012", "PEUGEOT", "P208">>,
      <<NaN, "Vintage destination">> }

\* the scan limits tried: every limit up to one past the grid, and the default
ScanLimits == 0..(MaxGridRows + 1) \cup {DefaultScanLimit}

InitLocator ==
    /\ RunIdle /\ fn_pc = "call" /\ ret = <<>>
    /\ args \in [df : SeqsUpTo(LocatorRows, MaxGridRows), scan_limit : ScanLimits]

CallLocator ==
    /\ fn_pc = "call"
    /\ ret' = find_header_row(args.df, args.scan_limit)
    /\ fn_pc' = "return"
    /\ UNCHANGED <<args, runVars>>

SpecLocator == InitLocator /\ [][CallLocator]_vars

\* the uppercased and trimmed cells of row i (0-based) of a grid
LabelsOf(df, i) == {upper(strip(str(df[i + 1][j]))) : j \in 1..Len(df[i + 1])}

HasCountOf(df, i) == \E c \in LabelsOf(df, i) : Contains(c, "COUNT OF")

\* row i is a header as C6 defines it
IsHeaderRow(df, i) ==
    /\ ~HasCountOf(df, i)
    /\ \E c \in LabelsOf(df, i) : Contains(c, "VIN")
    /\ \E c \in LabelsOf(df, i) :
          \E k \in {"MAKE", "BRAND", "MODEL", "MAKER", "OEM", "COMMODITY", "CUST",
                    "DESTINATION"} : Contains(c, k)

\* C6: find_header_row returns the lowest row index i < min(scan limit, rows) that
\* has no "COUNT OF" cell, a cell containing "VIN" and a cell containing a context
\* keyword; it returns "no header found" exactly when no such row exists; a row
\* with a "COUNT OF" label is never returned.
C6_TableLocator ==
    fn_pc = "return" =>
        LET scanned == {i \in 0..(Len(args.df) - 1) : i < args.scan_limit}
            headers == {i \in scanned : IsHeaderRow(args.df, i)}
        IN  /\ (ret = None) <=> (headers = {})
            /\ ret # None =>
                  /\ ret \in headers
                  /\ \A j \in headers : ret <= j
                  /\ ~HasCountOf(args.df, ret)

\* a pivot row holding VIN and context labels was passed over for a later header
C6_Witness ==
    /\ fn_pc = "return" /\ ret # None /\ ret > 0
    /\ \E i \in 0..(ret - 1) :
          /\ HasCountOf(args.df, i)
          /\ \E c \in LabelsOf(args.df, i) : Contains(c, "VIN")
          /\ \E c \in LabelsOf(args.df, i) : Contains(c, "MODEL")

(* ---- extract_vins_from_image, from the recognized text on ---- *)

MaxOcrLines == 2

OcrLines ==
    { "junk",
      "PEUGEOT 208 VF1AB123456789O12",
      "VF1AB123456789012",
      "Opel; Astra-K  QI0AB1234567890AB.",
      "zz CITR FORD ka VF1AB123456789O12 VF1AB123456789013",
      "FORD vf1ab123456789012",
      "208 xVF1AB123456789012",
      "VF1AB123456789012_",
      "JEEP VF1AB12345678901",
      "FIAT  VF1AB123456789012 500",
      "vf1ab123456789012 vaux VF1AB123456789013" }

\* the fallback brand and model typed by the user (defaults OPEL / COMBO)
OcrFallbacks == {<<"OPEL", "COMBO">>, <<"", " ">>}

InitOcr ==
    /\ RunIdle /\ fn_pc = "call" /\ ret = <<>>
    /\ \E f \in OcrFallbacks :
          args \in [lines : SeqsUpTo(OcrLines, MaxOcrLines),
                    default_brand : {f[1]}, default_model : {f[2]}]

CallOcr ==
    /\ fn_pc = "call"
    /\ ret' = ExtractText(args.lines, args.default_brand, args.default_model)
    /\ fn_pc' = "return"
    /\ UNCHANGED <<args, runVars>>

SpecOcr == InitOcr /\ [][CallOcr]_vars

\* the maximal runs of characters of class in a line, as <<start, end>> (1-based)
RunsOf(line, class) ==
    LET in(k) == k >= 1 /\ k <= Len(line) /\ Ch(line, k) \in class
        starts == {i \in 1..Len(line) : in(i) /\ ~in(i - 1)}
        ends == {j \in 1..Len(line) : in(j) /\ ~in(j + 1)}
    IN  {<<i, Min({j \in ends : j >= i})>> : i \in starts}

LeftMost(runs) == CHOOSE r \in runs : \A q \in runs : r[1] <= q[1]

\* the confusion map of C9: O -> 0, Q -> 0, I -> 1
C9_Corrected(token) ==
    LET fix == [c \in CharsOf(token) |->
                   IF c \in {"O", "Q"} THEN "0" ELSE IF c = "I" THEN "1" ELSE c]
        RECURSIVE Build(_)
        Build(i) == IF i > Len(token) THEN "" ELSE fix[Ch(token, i)] \o Build(i + 1)
    IN  Build(1)

\* the record C9 describes for a line whose VIN token is the run tok
C9_Record(line, tok, default_brand, default_model) ==
    LET before == SubSeq(line, 1, tok[1] - 1)
        kept == KeepChars(upper(before), UpperSet \cup DigitSet \cup WhiteSet)
        words == split(kept)
        keys == {i \in 1..Len(words) : words[i] \in VALID_BRAND_KEYS}
        k == Min(keys)
        later == join(SubSeq(words, k + 1, Len(words)))
    IN  [VIN |-> C9_Corrected(SubSeq(line, tok[1], tok[2])),
         BRAND |-> IF keys = {} THEN default_brand ELSE words[k],
         MODEL |-> IF keys = {} THEN default_model
                   ELSE IF strip(later) = "" THEN default_model ELSE later]

\* the records C9 describes for a text, given what counts as a VIN token of a line
\* (tokens[i]: the VIN tokens of line i)
C9_Records(lines, tokens, default_brand, default_model) ==
    Flatten([i \in 1..Len(lines) |->
                IF tokens[i] = {} THEN <<>>
                ELSE <<C9_Record(lines[i], LeftMost(tokens[i]),
                                 default_brand, default_model)>>])

\* a 17-character letter/digit token: a maximal run of letters and digits, 17 long
LetterDigitTokens(line) ==
    {r \in RunsOf(line, UpperSet \cup LowerSet \cup DigitSet) : r[2] - r[1] + 1 = VinLen}

\* a maximal run of letters, digits and underscores that is 17 long and made of
\* upper-case letters and digits only
UpperCaseTokens(line) ==
    {r \in RunsOf(line, WordSet) :
        /\ r[2] - r[1] + 1 = VinLen
        /\ \A k \in r[1]..r[2] : Ch(line, k) \in UpperSet \cup DigitSet}

\* C9 as stated: each line yields at most one record, none without a 17-character
\* letter/digit token; with one, the record's VIN is the left-most token with
\* O->0, Q->0, I->1 applied, and brand/model come from the text before it.
C9_AsStated ==
    fn_pc = "return" =>
        ret = C9_Records(args.lines,
                         [i \in 1..Len(args.lines) |-> LetterDigitTokens(args.lines[i])],
                         args.default_brand, args.default_model)

\* C9 amended: the VIN token is a run of exactly 17 upper-case letters (A-Z) and
\* digits with no letter, digit or underscore next to it; a line without such a
\* run yields no record, a line with one yields exactly the record described.
C9_OcrExtractor ==
    fn_pc = "return" =>
        ret = C9_Records(args.lines,
                         [i \in 1..Len(args.lines) |-> UpperCaseTokens(args.lines[i])],
                         args.default_brand, args.default_model)

\* a line with two tokens and a brand alias before the first yielded one record,
\* with a confusable character corrected
C9_Witness ==
    /\ fn_pc = "return" /\ Len(args.lines) = 2 /\ Len(ret) = 1
    /\ \E i \in 1..2 : Cardinality(UpperCaseTokens(args.lines[i])) = 2
    /\ ret[1].BRAND = "CITR" /\ ret[1].MODEL = "FORD KA"
    /\ ret[1].VIN = "VF1AB123456789012"

(* ---- standardize_columns, on a header row sliced off as lines 295-297 do ---- *)

MaxCols == 3
MaxDataRows == 2

HeaderCells ==
    {"VIN", " Chassis/vin no ", "MAKE", "Brand", "MODEL", "Make / Model", "Vin Model",
     "Colour", NaN}

\* a data cell that names its row and column, so that columns can be told apart
DataCell(r, c) == "r" \o IntStr(r) \o "c" \o IntStr(c)

\* a grid: the header row, then rows data rows of the same width
GridOf(header, rows) ==
    <<header>> \o [r \in 1..rows |-> [c \in 1..Len(header) |-> DataCell(r, c)]]

InitCols ==
    /\ RunIdle /\ fn_pc = "call" /\ ret = <<>>
    /\ \E header \in SeqsUpTo(HeaderCells, MaxCols) \ {<<>>}, rows \in 0..MaxDataRows :
          args = GridOf(header, rows)

CallCols ==
    /\ fn_pc = "call"
    /\ ret' = standardize_columns(SliceBelowHeader(args, 0))
    /\ fn_pc' = "return"
    /\ UNCHANGED <<args, runVars>>

SpecCols == InitCols /\ [][CallCols]_vars

\* the left-most column (1-based) outside taken whose uppercased label contains one
\* of keywords; 0 when there is none
LeftMostColumn(labels, keywords, taken) ==
    LET hits == {c \in 1..Len(labels) :
                    /\ c \notin taken
                    /\ \E k \in keywords : Contains(upper(labels[c]), k)}
    IN  IF hits = {} THEN 0 ELSE CHOOSE c \in hits : \A d \in hits : c <= d

\* C10: the canonical fields are assigned in the order VIN, BRAND, MODEL, each to
\* the left-most column whose uppercased label contains its keyword among the
\* columns no earlier field claimed; a field without a column is all-empty; the
\* output has exactly the columns VIN, BRAND, MODEL, in that order, and the same
\* rows in the same order.
C10_ColumnStandardizer ==
    fn_pc = "return" =>
        LET labels == SliceBelowHeader(args, 0).columns
            data == Tail(args)
            vin == LeftMostColumn(labels, {"VIN"}, {})
            brand == LeftMostColumn(labels, {"MAKE", "BRAND", "OEM", "MAKER"}, {vin})
            model == LeftMostColumn(labels, {"MODEL"}, {vin, brand})
            value(r, c) == IF c = 0 THEN "" ELSE data[r][c]
        IN  /\ ret.columns = <<"VIN", "BRAND", "MODEL">>
            /\ Len(ret.rows) = Len(data)
            /\ \A r \in 1..Len(data) :
                  ret.rows[r] = <<value(r, vin), value(r, brand), value(r, model)>>
            \* no source column feeds two canonical fields
            /\ \A r \in 1..Len(data) : \A f, g \in 1..3 :
                  (f # g /\ ret.rows[r][f] # "") => ret.rows[r][f] # ret.rows[r][g]

\* a column matching both VIN and MODEL went to VIN, a later one matching both
\* MAKE and MODEL went to BRAND, and MODEL was left empty
C10_Witness ==
    /\ fn_pc = "return" /\ Len(ret.rows) = 2 /\ Len(args[1]) = 3
    /\ args[1][2] = "Vin Model" /\ args[1][3] = "Make / Model"
    /\ ret.rows[2] = <<DataCell(2, 2), DataCell(2, 3), "">>

---------------------------------------------------------------------------
(* The script: one run of app.py, top to bottom *)

CUSTOMER_MAP ==
    [Hoedlmayr |-> "HOD", Stellantis |-> "STS", INEOS |-> "INO", AstonMartinLagonda |-> "AML",
     BentleyMotorsLtd |-> "BML", KESSGroning |-> "KGR", NeptuneJLR |-> "LRE"]

POA_MAP ==
    [Grimsby |-> "GRIM", Zeebrugge |-> "ZEEB", Malmo |-> "MALM", Emden |-> "EMD",
     Setubal |-> "SETU"]

\* the steps of one sheet's chain at which an exception can be raised
FaultSteps == {"locate", "standardize", "clean", "validate", "filter", "normalize"}

Crashed == [state |-> "CRASHED", records |-> <<>>]

\* df[mask]: the rows of a frame whose mask entry is TRUE, in order
FilterRows(rows, mask) ==
    Flatten([i \in 1..Len(rows) |-> IF mask[i] THEN <<rows[i]>> ELSE <<>>])

\* df_mapped["MODEL"] = df_mapped.apply(clean_model_name, axis=1)
CleanModels(df_mapped) ==
    [r \in 1..Len(df_mapped) |->
        Only({[row EXCEPT !.MODEL = clean_model_name(row)] : row \in {df_mapped[r]}})]

\* lines 299-300 and 380-381: standardize the columns, then clean MODEL row-wise
MapAndClean(df_data) ==
    Only({CleanModels(m) : m \in {Records(standardize_columns(df_data))}})

\* df["BRAND"] = df["BRAND"].apply(map_brand)
NormalizeBrand(df) == [r \in 1..Len(df) |-> [df[r] EXCEPT !.BRAND = map_brand(df[r].BRAND)]]

\* lines 303-304: df_mapped[df_mapped["Status"] == True]
VinOk(row) == get_vin_status(row.VIN).ok

ValidRows(df_mapped) ==
    FilterRows(df_mapped, [i \in 1..Len(df_mapped) |-> VinOk(df_mapped[i])])

\* line 305: df_clean["BRAND"].astype(str).str.strip() != ""
BrandCellNotBlank(row) == strip(str(row.BRAND)) # ""

BrandRows(valid) ==
    FilterRows(valid, [i \in 1..Len(valid) |-> BrandCellNotBlank(valid[i])])

\* Lines 291-310, one sheet through the chain, an exception being raised at step
\* fault if the chain gets there ("none": no exception but the chain's own).

\* lines 307-309, on the rows that passed both filters
SheetFiltered(df_clean, fault) ==
    IF df_clean = <<>> THEN [state |-> "FILTERED", records |-> <<>>]
    ELSE IF fault = "normalize" THEN Crashed
    ELSE [state |-> "FILTERED", records |-> NormalizeBrand(df_clean)]

\* line 305, on the rows whose VIN is valid
SheetValidated(valid, fault) ==
    IF fault = "filter" THEN Crashed
    ELSE Only({SheetFiltered(c, fault) : c \in {BrandRows(valid)}})

\* lines 302-304; unpacking zip(*...) raises when the table has no data row
SheetMapped(df_mapped, fault) ==
    IF fault = "validate" \/ df_mapped = <<>> THEN Crashed
    ELSE Only({SheetValidated(v, fault) : v \in {ValidRows(df_mapped)}})

\* lines 299-300
SheetSliced(df_data, fault) ==
    IF fault \in {"standardize", "clean"} THEN Crashed
    ELSE Only({SheetMapped(m, fault) : m \in {MapAndClean(df_data)}})

\* lines 294-297
SheetLocated(df, header_idx, fault) ==
    IF header_idx = None THEN [state |-> "NO_HEADER", records |-> <<>>]
    ELSE Only({SheetSliced(d, fault) : d \in {SliceBelowHeader(df, header_idx)}})

\* lines 291-293
SheetOutcome(df, fault) ==
    IF df = <<>> THEN [state |-> "EMPTY", records |-> <<>>]
    ELSE IF fault = "locate" THEN Crashed
    ELSE Only({SheetLocated(df, h, fault) : h \in {find_header_row(df, DefaultScanLimit)}})

\* the loop with "break" for the "continue" of line 310
LoopAfterSheet_break(outcome, frames, idx, n) ==
    [frames |-> IF outcome.records # <<>> THEN Append(frames, outcome.records) ELSE frames,
     idx |-> IF outcome.state = "CRASHED" THEN n + 1 ELSE idx + 1]

\* lines 307-310: what the loop holds after a sheet's outcome; the bare except and
\* the early exits all continue with the next sheet
LoopAfterSheet(outcome, frames, idx, n) ==
    [frames |-> IF outcome.records # <<>> THEN Append(frames, outcome.records) ELSE frames,
     idx |-> idx + 1]

\* lines 383-392, on the mapped rows; paste_df is only assigned at line 385
PasteMapped(df_mapped) ==
    IF df_mapped = <<>>
    THEN [records |-> <<>>, kind |-> "error", text |-> "Parsing Error"]
    ELSE Only({ IF valid = <<>>
                THEN [records |-> <<>>, kind |-> "warning",
                      text |-> "Found table structure, but no valid VINs found."]
                ELSE [records |-> NormalizeBrand(valid), kind |-> "success",
                      text |-> "Parsed " \o IntStr(Len(valid)) \o " vehicles from clipboard."]
                : valid \in {ValidRows(df_mapped)} })

\* lines 375-394
PasteLocated(df_paste, header_idx) ==
    IF header_idx = None
    THEN [records |-> <<>>, kind |-> "error",
          text |-> "Could not find a valid header row (VIN, CHASSIS, etc) in pasted text."]
    ELSE Only({PasteMapped(m) : m \in {MapAndClean(SliceBelowHeader(df_paste, header_idx))}})

\* lines 374-397: the pasted block
PasteOutcome(df_paste) ==
    Only({PasteLocated(df_paste, h) : h \in {find_header_row(df_paste, DefaultScanLimit)}})

\* drop_duplicates with keep="last"
drop_duplicates_keep_last(df) ==
    LET last == {i \in 1..Len(df) : \A j \in (i + 1)..Len(df) : df[j].VIN # df[i].VIN}
    IN  Flatten([i \in 1..Len(df) |-> IF i \in last THEN <<df[i]>> ELSE <<>>])

\* final_df.drop_duplicates(subset=["VIN"], keep="first")
drop_duplicates(df) ==
    LET first == {i \in 1..Len(df) : \A j \in 1..(i - 1) : df[j].VIN # df[i].VIN}
    IN  Flatten([i \in 1..Len(df) |-> IF i \in first THEN <<df[i]>> ELSE <<>>])

\* lines 418-424: the VDAT columns
VdatRow(row, customer, poa) ==
    [VIN |-> row.VIN, BRAND |-> row.BRAND, MODEL |-> row.MODEL, MODELTYPE |-> row.MODEL,
     CUSTOMER |-> customer, POA |-> poa]

\* lines 410-424 on the concatenated frames
MergeConcat(concat, customer, poa) ==
    Only({ [final |-> [i \in 1..Len(kept) |-> VdatRow(kept[i], customer, poa)],
            dedup_count |-> Len(concat) - Len(kept)] : kept \in {drop_duplicates(concat)} })

\* lines 404-424: the merged, deduplicated export set and the number removed
MergeFrames(file, ocr, paste, customer, poa) ==
    Only({MergeConcat(c, customer, poa) : c \in {Flatten(<<file, ocr, paste>>)}})

Msg(kind, text) == [kind |-> kind, text |-> text, sheet |-> 0]

(* ---- the inputs of a run ---- *)

MaxSheets == 2

HeaderRow == <<"VIN", "MAKE", "MODEL">>

SheetPool ==
    { \* a pivot summary above the real header
      << <<"Count of VIN", "5", NaN>>, HeaderRow,
         <<"VF1AB123456789012", "PEUGEOT", "P208">> >>,
      \* an empty sheet
      <<>>,
      \* no header
      << <<"Brand", "Model", "Colour">>, <<"OPEL", "CORSA", "RED">> >>,
      \* a header and nothing below it
      << <<NaN, NaN, NaN>>, HeaderRow >>,
      \* blank and missing brands, a bad VIN, a VIN the first sheet also holds
      << HeaderRow,
         <<"VF1AB123456789013", NaN, "nano">>,
         <<"VF1AB123456789014", "  ", "X">>,
         <<"ABC123", "FORD", "KA">>,
         <<" vf1ab 12345 6789012 ", "Vauxhall", "O CORSA">>,
         <<"VF1AB123456789012", "Citroen (Stellantis)", "C4">> >> }

ScanPool ==
    { <<"PEUGEOT 208 VF1AB123456789O12">>,
      <<"Opel; Astra-K  QI0AB1234567890AB.", "junk">>,
      <<"junk">> }

NoScan == [kind |-> "none", lines |-> <<>>, manual_brand |-> "", manual_model |-> ""]

ScanInputs ==
    {NoScan, [NoScan EXCEPT !.kind = "unreadable"]}
    \cup {[kind |-> "text", lines |-> t, manual_brand |-> "OPEL", manual_model |-> "COMBO"] :
             t \in ScanPool}
    \cup {[kind |-> "text", lines |-> <<"VF1AB123456789016">>,
           manual_brand |-> " ", manual_model |-> ""]}

PastePool ==
    { << HeaderRow,
         <<"VF1AB123456789012", "Vauxhall", "Corsa">>,
         <<"VF1AB123456789015", " ", "X">>,
         <<"VF1AB1234567890AB", "FORD", "KA">> >>,
      << <<"Brand", "Model">>, <<"OPEL", "CORSA">> >>,
      << HeaderRow >>,
      << HeaderRow, <<"ABC123", "FORD", "KA">> >> }

PasteInputs ==
    {[kind |-> "none", df |-> <<>>], [kind |-> "unreadable", df |-> <<>>]}
    \cup {[kind |-> "grid", df |-> g] : g \in PastePool}

Init ==
    /\ pc = "tab1"
    \* the select boxes stay on their first entries
    /\ customer_code = CUSTOMER_MAP.Hoedlmayr
    /\ poa_code = POA_MAP.Grimsby
    /\ \/ upload \in {"none", "unreadable"} /\ sheets = <<>>
       \/ upload = "workbook" /\ sheets \in SeqsUpTo(SheetPool, MaxSheets) \ {<<>>}
    /\ ocr_in \in ScanInputs
    /\ paste_in \in PasteInputs
    /\ sheet_idx = 0 /\ sheet_state = <<>> /\ all_clean_frames = <<>>
    /\ file_df = <<>> /\ ocr_df = <<>> /\ paste_df = <<>> /\ final_df = <<>>
    /\ dedup_count = 0 /\ messages = <<>>
    /\ fn_pc = "idle" /\ args = <<>> /\ ret = <<>>

inputVars == <<customer_code, poa_code, upload, sheets, ocr_in, paste_in, fnVars>>

(* ---- the blocks of the script ---- *)

\* lines 277-288 and 315-316: decode the upload
OpenUpload ==
    /\ pc = "tab1"
    /\ \/ /\ upload = "none"
          /\ pc' = "tab2"
          /\ UNCHANGED <<sheet_idx, messages>>
       \/ /\ upload = "unreadable"
          /\ messages' = Append(messages, Msg("error", "Error"))
          /\ pc' = "tab2"
          /\ UNCHANGED sheet_idx
       \/ /\ upload = "workbook"
          /\ sheet_idx' = 1
          /\ pc' = "sheets"
          /\ UNCHANGED messages
    /\ UNCHANGED <<sheet_state, all_clean_frames, file_df, ocr_df, paste_df, final_df,
                   dedup_count, inputVars>>

\* lines 290-310: one iteration of the per-sheet loop
ProcessSheet ==
    /\ pc = "sheets" /\ sheet_idx <= Len(sheets)
    /\ \E fault \in FaultSteps \cup {"none"} :
       \E outcome \in {SheetOutcome(sheets[sheet_idx], fault)} :
       \E after \in {LoopAfterSheet(outcome, all_clean_frames, sheet_idx,
                                      Len(sheets))} :
          /\ sheet_state' = Append(sheet_state, outcome.state)
          /\ all_clean_frames' = after.frames
          /\ sheet_idx' = after.idx
    /\ UNCHANGED <<pc, file_df, ocr_df, paste_df, final_df, dedup_count, messages, inputVars>>

\* lines 312-314: after the loop
CloseUpload ==
    /\ pc = "sheets" /\ sheet_idx > Len(sheets)
    /\ IF all_clean_frames # <<>>
       THEN /\ file_df' = Flatten(all_clean_frames)
            /\ messages' = Append(messages, Msg("success",
                   "Loaded " \o IntStr(Len(Flatten(all_clean_frames))) \o " vehicles from file."))
       ELSE UNCHANGED <<file_df, messages>>
    /\ pc' = "tab2"
    /\ UNCHANGED <<sheet_idx, sheet_state, all_clean_frames, ocr_df, paste_df, final_df,
                   dedup_count, inputVars>>

\* lines 338-351: the scan
ScanImage ==
    /\ pc = "tab2"
    /\ \/ /\ ocr_in.kind = "none"
          /\ UNCHANGED <<ocr_df, messages>>
       \/ /\ ocr_in.kind = "unreadable"
          /\ messages' = Append(messages, Msg("error", "OCR Error"))
          /\ UNCHANGED ocr_df
       \/ /\ ocr_in.kind = "text"
          /\ \E found \in {ExtractText(ocr_in.lines, ocr_in.manual_brand,
                                        ocr_in.manual_model)} :
                 IF found # <<>>
                 THEN /\ ocr_df' = NormalizeBrand(found)
                      /\ messages' = Append(messages, Msg("success",
                             "Found " \o IntStr(Len(found)) \o " Vehicles!"))
                 ELSE /\ ocr_df' = found
                      /\ messages' = Append(messages, Msg("warning",
                             "No 17-character VINs found. Try cropping closer."))
    /\ pc' = "tab3"
    /\ UNCHANGED <<sheet_idx, sheet_state, all_clean_frames, file_df, paste_df, final_df,
                   dedup_count, inputVars>>

\* lines 363-397: the pasted text
ProcessPaste ==
    /\ pc = "tab3"
    /\ \/ /\ paste_in.kind = "none"
          /\ UNCHANGED <<paste_df, messages>>
       \/ /\ paste_in.kind = "unreadable"
          /\ messages' = Append(messages, Msg("error", "Parsing Error"))
          /\ UNCHANGED paste_df
       \/ /\ paste_in.kind = "grid"
          /\ \E outcome \in {PasteOutcome(paste_in.df)} :
                 /\ paste_df' = outcome.records
                 /\ messages' = Append(messages, Msg(outcome.kind, outcome.text))
    /\ pc' = "merge"
    /\ UNCHANGED <<sheet_idx, sheet_state, all_clean_frames, file_df, ocr_df, final_df,
                   dedup_count, inputVars>>

\* lines 404-449: merge, deduplicate, export
Merge ==
    /\ pc = "merge"
    /\ IF Flatten(<<file_df, ocr_df, paste_df>>) # <<>>
       THEN \E merged \in {MergeFrames(file_df, ocr_df, paste_df, customer_code, poa_code)} :
            LET total == Msg("success",
                             "Total Unique Vehicles: " \o IntStr(Len(merged.final)))
                removed == Msg("warning",
                               "Removed " \o IntStr(merged.dedup_count) \o " duplicates.")
            IN  /\ final_df' = merged.final
                /\ dedup_count' = merged.dedup_count
                /\ messages' = messages \o <<total>>
                                  \o (IF merged.dedup_count > 0 THEN <<removed>> ELSE <<>>)
       ELSE /\ messages' = Append(messages,
                               Msg("info", "Upload File / Scan Image / Paste Data to begin."))
            /\ UNCHANGED <<final_df, dedup_count>>
    /\ pc' = "done"
    /\ UNCHANGED <<sheet_idx, sheet_state, all_clean_frames, file_df, ocr_df, paste_df,
                   inputVars>>

Next == OpenUpload \/ ProcessSheet \/ CloseUpload \/ ScanImage \/ ProcessPaste \/ Merge

Spec == Init /\ [][Next]_vars

---------------------------------------------------------------------------
(* Properties of a run *)

\* C1: after any run every record of the final export set, whichever channel
\* produced it, has a VIN that get_vin_status classifies as valid.
C1_ExportedVinsValid ==
    pc = "done" => \A i \in 1..Len(final_df) : get_vin_status(final_df[i].VIN).ok

\* the spreadsheet and pasted-text channels do validate: only a scan adds a bad VIN
C1_FileAndPasteValid ==
    /\ \A i \in 1..Len(file_df) : get_vin_status(file_df[i].VIN).ok
    /\ \A i \in 1..Len(paste_df) : get_vin_status(paste_df[i].VIN).ok

\* C2: after any run every record of the final export set has a BRAND that is
\* non-empty after map_brand; a row with an empty, blank or missing brand cell is
\* never exported.
C2_ExportedBrandsNonEmpty ==
    pc = "done" => \A i \in 1..Len(final_df) : map_brand(final_df[i].BRAND) # ""

\* the VIN, BRAND and MODEL of a record
Fields(row) == <<row.VIN, row.BRAND, row.MODEL>>

\* C3: the channel record sets being concatenated in the order spreadsheet, OCR,
\* pasted text, N records with M distinct VINs give exactly M output records, one
\* per VIN, each with the fields of the first occurrence of its VIN (so the
\* spreadsheet record wins over the OCR one), and the discarded count is N - M.
C3_MergeDeduplicate ==
    pc = "done" =>
        LET all == file_df \o ocr_df \o paste_df
            vins == {all[i].VIN : i \in 1..Len(all)}
            firstOf(v) == CHOOSE i \in 1..Len(all) :
                              /\ all[i].VIN = v
                              /\ \A j \in 1..Len(all) : all[j].VIN = v => i <= j
        IN  /\ Len(final_df) = Cardinality(vins)
            /\ \A v \in vins :
                  \E k \in 1..Len(final_df) :
                      /\ Fields(final_df[k]) = Fields(all[firstOf(v)])
                      /\ \A l \in 1..Len(final_df) : final_df[l].VIN = v => l = k
            /\ \A i \in 1..Len(file_df) : \A j \in 1..Len(ocr_df) :
                  file_df[i].VIN = ocr_df[j].VIN =>
                      \E k \in 1..Len(final_df) : \E f \in 1..Len(file_df) :
                          /\ final_df[k].VIN = ocr_df[j].VIN
                          /\ Fields(final_df[k]) = Fields(file_df[f])
            /\ all # <<>> => dedup_count = Len(all) - Cardinality(vins)

\* a VIN came from the spreadsheet and from the scan with different brands, and
\* the export holds the spreadsheet's
C3_Witness ==
    /\ pc = "done" /\ dedup_count > 0
    /\ \E i \in 1..Len(file_df) : \E j \in 1..Len(ocr_df) : \E k \in 1..Len(final_df) :
          /\ file_df[i].VIN = ocr_df[j].VIN
          /\ file_df[i].BRAND # ocr_df[j].BRAND
          /\ final_df[k].VIN = file_df[i].VIN
          /\ final_df[k].BRAND = file_df[i].BRAND

\* what a sheet contributes when nothing goes wrong beside it
Contribution(df) == SheetOutcome(df, "none").records

\* the contributions of the first n sheets, the crashed ones left out
HealthyContributions(n) ==
    Flatten([i \in 1..n |-> IF sheet_state[i] = "CRASHED" THEN <<>>
                            ELSE Contribution(sheets[i])])

\* C4: a fault at any step of one sheet's chain makes that sheet contribute zero
\* records and does not abort the run: every other sheet, before or after it, is
\* still processed and contributes exactly what it would contribute had the
\* faulty sheet been absent.
C4_FaultIsolation ==
    /\ Len(sheet_state) <= Len(sheets)
    /\ Flatten(all_clean_frames) = HealthyContributions(Len(sheet_state))
    /\ (upload = "workbook" /\ pc \notin {"tab1", "sheets"}) =>
          /\ Len(sheet_state) = Len(sheets)
          /\ file_df = HealthyContributions(Len(sheets))

\* a sound sheet crashed, and the sheet after it still delivered its records
C4_Witness ==
    /\ pc = "done" /\ Len(sheets) = 2
    /\ sheet_state = <<"CRASHED", "FILTERED">>
    /\ Contribution(sheets[1]) # <<>>
    /\ file_df # <<>> /\ file_df = Contribution(sheets[2])

\* C5: every sheet that ends in NO_HEADER or CRASHED leaves a recorded per-sheet
\* status with a reason that is surfaced to the caller as data.
C5_FailuresRecorded ==
    pc = "done" =>
        \A i \in 1..Len(sheet_state) :
            sheet_state[i] \in {"NO_HEADER", "CRASHED"} =>
                \E k \in 1..Len(messages) : messages[k].sheet = i /\ messages[k].text # ""

=============================================================================
